---- MODULE Spec2Model ----
(***************************************************************************)
(* A model of src/hyperfine/shell.rs: execute_and_time, run_shell_command  *)
(* and prepare_shell_command, in both builds (cfg(not(windows)) and        *)
(* cfg(windows)).  Strings that the code inspects character by character   *)
(* (the command, the shell, the tokens) are sequences of one-character     *)
(* strings; the value of the added environment variable, a repetition of   *)
(* one character, is kept as that character and the number of repetitions. *)
(***************************************************************************)
EXTENDS Integers, Sequences, FiniteSets, TLC

\* ------------------------------------------------------------------ bounds

\* Longest command text the preparer is applied to in SpecPrep.
MaxLen == 3
\* Invocations of execute_and_time in one behaviour (all threads together).
MaxCalls == 2
\* Largest user (and system) CPU time, in ticks, a child consumes.
MaxCpu == 1

\* ------------------------------------------------------------ program data

\* shell.rs:78, the modulus of the random offset.
EnvModulus == 4096

EnvName == "HYPERFINE_RANDOMIZED_ENVIRONMENT_OFFSET"

\* Values of rand::random::<usize>() the model draws: both ends of the range
\* of the remainder, the modulus itself, and a value far above it.
RandomWords == {0, 4095, 4096, 2147483647}

Threads == {"t1", "t2"}

Platforms == {"unix", "windows"}

\* Stdio policies a caller can pass (Stdio::null(), ::piped(), ::inherit()).
Stdio == {"null", "piped", "inherit"}

\* Raw exit statuses a child ends with: success and a failure.
RawStatuses == {0, 256}

\* Programs the OS can find.
Executables == {<<"a">>, <<"s", "h">>}

Alphabet == {"a", " ", "'", "\"", "\\", "#"}

RECURSIVE StringsUpTo(_)
StringsUpTo(n) ==
    IF n = 0 THEN {<<>>}
    ELSE LET shorter == StringsUpTo(n - 1)
         IN  shorter \cup {Append(s, c) : s \in {x \in shorter : Len(x) = n - 1}, c \in Alphabet}

\* ---------------------------------------------------- shell_words::split

IsSpace(c) == c \in {" ", "\t", "\n"}

RECURSIVE SplitLoop(_, _, _, _, _)
\* The tokenizer's loop: s the text, i the next character, state the
\* tokenizer state, word the token being built, words the tokens so far.
SplitLoop(s, i, state, word, words) ==
    LET eof == i > Len(s)
        c == IF eof THEN "" ELSE s[i]
        go(st, w, ws) == SplitLoop(s, i + 1, st, w, ws)
        done(ws) == [ok |-> TRUE, words |-> ws]
        fail == [ok |-> FALSE, words |-> <<>>]
    IN  CASE state = "Delimiter" ->
               IF eof THEN done(words)
               ELSE IF c = "'" THEN go("SingleQuoted", word, words)
               ELSE IF c = "\"" THEN go("DoubleQuoted", word, words)
               ELSE IF c = "\\" THEN go("Backslash", word, words)
               ELSE IF IsSpace(c) THEN go("Delimiter", word, words)
               ELSE IF c = "#" THEN go("Comment", word, words)
               ELSE go("Unquoted", Append(word, c), words)
          [] state = "Backslash" ->
               IF eof THEN done(Append(words, Append(word, "\\")))
               ELSE IF c = "\n" THEN go("Delimiter", word, words)
               ELSE go("Unquoted", Append(word, c), words)
          [] state = "Unquoted" ->
               IF eof THEN done(Append(words, word))
               ELSE IF c = "'" THEN go("SingleQuoted", word, words)
               ELSE IF c = "\"" THEN go("DoubleQuoted", word, words)
               ELSE IF c = "\\" THEN go("UnquotedBackslash", word, words)
               ELSE IF IsSpace(c) THEN go("Delimiter", <<>>, Append(words, word))
               ELSE go("Unquoted", Append(word, c), words)
          [] state = "UnquotedBackslash" ->
               IF eof THEN done(Append(words, Append(word, "\\")))
               ELSE IF c = "\n" THEN go("Unquoted", word, words)
               ELSE go("Unquoted", Append(word, c), words)
          [] state = "SingleQuoted" ->
               IF eof THEN fail
               ELSE IF c = "'" THEN go("Unquoted", word, words)
               ELSE go("SingleQuoted", Append(word, c), words)
          [] state = "DoubleQuoted" ->
               IF eof THEN fail
               ELSE IF c = "\"" THEN go("Unquoted", word, words)
               ELSE IF c = "\\" THEN go("DoubleQuotedBackslash", word, words)
               ELSE go("DoubleQuoted", Append(word, c), words)
          [] state = "DoubleQuotedBackslash" ->
               IF eof THEN fail
               ELSE IF c = "\n" THEN go("DoubleQuoted", word, words)
               \* also the backquote, which the alphabet does not hold
               ELSE IF c \in {"$", "\"", "\\"} THEN go("DoubleQuoted", Append(word, c), words)
               ELSE go("DoubleQuoted", Append(Append(word, "\\"), c), words)
          [] OTHER -> \* "Comment"
               IF eof THEN done(words)
               ELSE IF c = "\n" THEN go("Delimiter", word, words)
               ELSE go("Comment", word, words)

\* shell_words::split(command): the tokens, or a failure on an unclosed quote.
split(command) == SplitLoop(command, 1, "Delimiter", <<>>, <<>>)

\* ------------------------------------------------- prepare_shell_command

PrepErr(error) == [kind |-> "Err", error |-> error, executable |-> <<>>, arguments |-> <<>>]
PrepNone == [kind |-> "None", error |-> "", executable |-> <<>>, arguments |-> <<>>]
PrepSome(executable, arguments) ==
    [kind |-> "Some", error |-> "", executable |-> executable, arguments |-> arguments]
PrepUnset == [kind |-> "unset", error |-> "", executable |-> <<>>, arguments |-> <<>>]

\* Faulty variant: a parse failure is taken for an empty command.
prepare_shell_command_lenient(command, shell, shell_arg) ==
    IF shell = <<>>
    THEN LET tokens == split(command)
         IN  IF tokens.ok /\ Len(tokens.words) > 0
             THEN PrepSome(Head(tokens.words), Tail(tokens.words))
             ELSE PrepNone
    ELSE PrepSome(shell, <<shell_arg, command>>)

\* Faulty variant: the command is tokenized even when a shell is given.
prepare_shell_command_split(command, shell, shell_arg) ==
    LET tokens == split(command)
    IN  IF ~tokens.ok THEN PrepErr("ParseError")
        ELSE IF shell = <<>>
        THEN IF Len(tokens.words) > 0
             THEN PrepSome(Head(tokens.words), Tail(tokens.words))
             ELSE PrepNone
        ELSE PrepSome(shell, <<shell_arg, command>>)

\* Faulty variant: the token after the executable is lost.
prepare_shell_command_skip(command, shell, shell_arg) ==
    IF shell = <<>>
    THEN LET tokens == split(command)
         IN  IF ~tokens.ok THEN PrepErr("ParseError")
             ELSE IF Len(tokens.words) > 0
             THEN PrepSome(Head(tokens.words),
                           IF Len(tokens.words) > 1 THEN Tail(Tail(tokens.words)) ELSE <<>>)
             ELSE PrepNone
    ELSE PrepSome(shell, <<shell_arg, command>>)

prepare_shell_command(command, shell, shell_arg) ==
    IF shell = <<>>
    THEN LET tokens == split(command)
         IN  IF ~tokens.ok THEN PrepErr("ParseError")
             ELSE IF Len(tokens.words) > 0
             THEN PrepSome(Head(tokens.words), Tail(tokens.words))
             ELSE PrepNone
    ELSE PrepSome(shell, <<shell_arg, command>>)

\* The flag run_shell_command passes: "-c", and "/C" in the Windows build.
platform_shell_arg(p) == IF p = "windows" THEN <<"/", "C">> ELSE <<"-", "c">>

\* ------------------------------------------------------------------ state

VARIABLES
    platform,         \* the build: cfg(not(windows)) or cfg(windows)
    pc,               \* per thread: where its call of execute_and_time stands
    args,             \* per thread: (stdout, stderr, command, shell) of its call
    prepared,         \* per thread: what prepare_shell_command returned
    cpu_timer,        \* per thread: the local cpu_timer
    child,            \* per thread: the process its call spawned
    status,           \* per thread: the local status (-1: not set)
    rusage_children,  \* process-wide: CPU time of the children waited for so far
    result,           \* per thread: what its call returned
    spawns,           \* per thread: spawn attempts of its call
    timers,           \* per thread: timers its call created
    stops,            \* per thread: stop() calls of its call
    harvest,          \* per thread: CPU time the process's waits harvested
                      \*   while the timer of its call was live (history)
    calls             \* invocations so far

vars == <<platform, pc, args, prepared, cpu_timer, child, status,
          rusage_children, result, spawns, timers, stops, harvest, calls>>

Shells == {<<>>, <<"s", "h">>}

\* Commands of the runs: empty, one word, two words, a missing program, an
\* unclosed quote.
Commands == {<<>>, <<"a">>, <<"a", " ", "b">>, <<"b">>, <<"'", "a">>}

Requests == [stdout : Stdio, stderr : Stdio, command : Commands, shell : Shells]

\* Requests of the concurrent runs.
ConcRequests ==
    [stdout : {"null"}, stderr : {"piped"}, command : {<<>>, <<"a">>, <<"'", "a">>}, shell : {<<>>}]

\* Requests of the preparer's runs: every command text up to MaxLen.
PrepRequests ==
    [stdout : {"null"}, stderr : {"null"}, command : StringsUpTo(MaxLen), shell : Shells]

NoRequest == [stdout |-> "null", stderr |-> "null", command |-> <<>>, shell |-> <<>>]

NoChild ==
    [kind |-> "none", executable |-> <<>>, arguments |-> <<>>, envs |-> <<>>,
     stdin |-> "", stdout |-> "", stderr |-> "",
     state |-> "", utime |-> 0, stime |-> 0, raw |-> -1]

\* Line 97: the Windows build answers the empty command with an exit status
\* of raw 0 where run_shell_command is declared to return a Child (the line
\* does not type-check as written). The value is read as what it stands
\* for: a child that has already ended with status 0, used no CPU time and
\* has no process behind it.
StatusAsChild ==
    [kind |-> "status", executable |-> <<>>, arguments |-> <<>>, envs |-> <<>>,
     stdin |-> "", stdout |-> "", stderr |-> "",
     state |-> "exited", utime |-> 0, stime |-> 0, raw |-> 0]

\* Faulty variant: the two output policies change places.
CommandSwapped(executable, arguments, envs, stdout, stderr) ==
    [kind |-> "process", executable |-> executable, arguments |-> arguments,
     envs |-> envs, stdin |-> "null", stdout |-> stderr, stderr |-> stdout,
     state |-> "running", utime |-> 0, stime |-> 0, raw |-> -1]

\* Command::new(executable).args(..).env(..).stdin(Stdio::null())
\*     .stdout(stdout).stderr(stderr): the process as spawned.
Command(executable, arguments, envs, stdout, stderr) ==
    [kind |-> "process", executable |-> executable, arguments |-> arguments,
     envs |-> envs, stdin |-> "null", stdout |-> stdout, stderr |-> stderr,
     state |-> "running", utime |-> 0, stime |-> 0, raw |-> -1]

\* c.repeat(n): the string of n times the character c.
Repeat(c, n) == [char |-> c, len |-> n]

\* Faulty variant: the modulus is off by one.
random_offset_wide(r) == Repeat("X", r % (EnvModulus + 1))

\* "X".repeat(rand::random::<usize>() % 4096usize), r the random word.
random_offset(r) == Repeat("X", r % EnvModulus)

\* The environment run_shell_command adds: one variable in the unix build,
\* none in the Windows build.
added_env(p, r) ==
    IF p = "windows" THEN <<>> ELSE <<[name |-> EnvName, value |-> random_offset(r)]>>

\* Whether the OS can start the program at all.
CanSpawn(executable) == executable \in Executables

\* ------------------------------------------------------------- the timer

NoTimer == [kind |-> "none", utime |-> 0, stime |-> 0]

\* get_cpu_timer(): the wait-based timer marks the usage of the children
\* waited for so far; the handle-based timer holds on to the child.
get_cpu_timer(p, usage) ==
    IF p = "windows" THEN [kind |-> "handle", utime |-> 0, stime |-> 0]
    ELSE [kind |-> "rusage", utime |-> usage.utime, stime |-> usage.stime]

\* cpu_timer.stop(): (user_time, system_time). Wait-based: the usage the
\* waits have harvested since the mark. Handle-based: the times of the
\* child the handle names.
stop(timer, c, usage) ==
    IF timer.kind = "handle" THEN <<c.utime, c.stime>>
    ELSE <<usage.utime - timer.utime, usage.stime - timer.stime>>

\* ------------------------------------------------------------ the results

NoResult == [kind |-> "pending", user_time |-> 0, system_time |-> 0, status |-> -1, error |-> ""]

\* Faulty variant: an error is turned into an empty success.
Swallow(error) ==
    [kind |-> "Ok", user_time |-> 0, system_time |-> 0, status |-> 0, error |-> ""]

\* The ? operator: the error goes to the caller as it is.
Propagate(error) ==
    [kind |-> "Err", user_time |-> 0, system_time |-> 0, status |-> -1, error |-> error]

\* Ok(ExecuteResult { user_time, system_time, status })
ExecuteResult(user_time, system_time, st) ==
    [kind |-> "Ok", user_time |-> user_time, system_time |-> system_time,
     status |-> st, error |-> ""]

\* ---------------------------------------------------------------- actions

Init ==
    /\ platform \in Platforms
    /\ pc = [t \in Threads |-> "idle"]
    /\ args = [t \in Threads |-> NoRequest]
    /\ prepared = [t \in Threads |-> PrepUnset]
    /\ cpu_timer = [t \in Threads |-> NoTimer]
    /\ child = [t \in Threads |-> NoChild]
    /\ status = [t \in Threads |-> -1]
    /\ rusage_children = [utime |-> 0, stime |-> 0]
    /\ result = [t \in Threads |-> NoResult]
    /\ spawns = [t \in Threads |-> 0]
    /\ timers = [t \in Threads |-> 0]
    /\ stops = [t \in Threads |-> 0]
    /\ harvest = [t \in Threads |-> [utime |-> 0, stime |-> 0]]
    /\ calls = 0

\* The build fixes the order of the steps of execute_and_time.
FirstStep(p) == IF p = "windows" THEN "run_shell_command" ELSE "get_cpu_timer"
AfterTimer(p) == IF p = "windows" THEN "wait" ELSE "run_shell_command"
\* Faulty variant: the unix build spawns without waiting.
AfterSpawnNoWait(p) == IF p = "windows" THEN "get_cpu_timer" ELSE "stop"
AfterSpawn(p) == IF p = "windows" THEN "get_cpu_timer" ELSE "wait"

\* The return of execute_and_time in thread t.
Return(t, res) ==
    /\ pc' = [pc EXCEPT ![t] = "idle"]
    /\ result' = [result EXCEPT ![t] = res]

\* A caller invokes execute_and_time(stdout, stderr, command, shell) in
\* thread t; the locals of the call are fresh.
Invoke(t, requests) ==
    /\ pc[t] = "idle"
    /\ calls < MaxCalls
    /\ calls' = calls + 1
    /\ \E req \in requests : args' = [args EXCEPT ![t] = req]
    /\ pc' = [pc EXCEPT ![t] = FirstStep(platform)]
    /\ prepared' = [prepared EXCEPT ![t] = PrepUnset]
    /\ cpu_timer' = [cpu_timer EXCEPT ![t] = NoTimer]
    /\ child' = [child EXCEPT ![t] = NoChild]
    /\ status' = [status EXCEPT ![t] = -1]
    /\ result' = [result EXCEPT ![t] = NoResult]
    /\ spawns' = [spawns EXCEPT ![t] = 0]
    /\ timers' = [timers EXCEPT ![t] = 0]
    /\ stops' = [stops EXCEPT ![t] = 0]
    /\ harvest' = [harvest EXCEPT ![t] = [utime |-> 0, stime |-> 0]]
    /\ UNCHANGED <<platform, rusage_children>>

\* let cpu_timer = get_cpu_timer();   (get_cpu_timer(&child) on Windows)
GetCpuTimer(t) ==
    /\ pc[t] = "get_cpu_timer"
    /\ cpu_timer' = [cpu_timer EXCEPT ![t] = get_cpu_timer(platform, rusage_children)]
    /\ timers' = [timers EXCEPT ![t] = @ + 1]
    /\ pc' = [pc EXCEPT ![t] = AfterTimer(platform)]
    /\ harvest' = [harvest EXCEPT ![t] = [utime |-> 0, stime |-> 0]]
    /\ UNCHANGED <<platform, args, prepared, child, status, rusage_children,
                   result, spawns, stops, calls>>

\* prepare_shell_command(..)? failed: the error returns at once.
PrepareFailed(t, p) ==
    /\ p.kind = "Err"
    /\ Return(t, Propagate(p.error))
    /\ UNCHANGED <<child, status, spawns>>

\* prepare_shell_command returned None: return Ok(from_raw(0)), with no
\* process. On unix this is the status; on Windows it stands where the
\* Child is expected.
NoCommand(t, p) ==
    /\ p.kind = "None"
    /\ IF platform = "windows"
       THEN /\ child' = [child EXCEPT ![t] = StatusAsChild]
            /\ pc' = [pc EXCEPT ![t] = AfterSpawn(platform)]
            /\ UNCHANGED <<status, result, spawns>>
       ELSE /\ status' = [status EXCEPT ![t] = 0]
            /\ pc' = [pc EXCEPT ![t] = "stop"]
            /\ UNCHANGED <<child, result, spawns>>

\* Command::new(..)...: the OS starts the process.
Spawned(t, p) ==
    /\ p.kind = "Some"
    /\ CanSpawn(p.executable)
    /\ \E r \in RandomWords :
          child' = [child EXCEPT ![t] =
                       Command(p.executable, p.arguments, added_env(platform, r),
                               args[t].stdout, args[t].stderr)]
    /\ spawns' = [spawns EXCEPT ![t] = @ + 1]
    /\ pc' = [pc EXCEPT ![t] = AfterSpawn(platform)]
    /\ UNCHANGED <<status, result>>

\* Faulty variant: a refused spawn is tried once more before the error
\* returns.
SpawnRefusedRetry(t, p) ==
    /\ p.kind = "Some"
    /\ spawns' = [spawns EXCEPT ![t] = @ + 2]
    /\ Return(t, Propagate("SpawnError"))
    /\ UNCHANGED <<child, status>>

\* The OS refuses to start the process (no such program, no permission, no
\* resources): the error returns through the ? operator.
SpawnRefused(t, p) ==
    /\ p.kind = "Some"
    /\ spawns' = [spawns EXCEPT ![t] = @ + 1]
    /\ Return(t, Propagate("SpawnError"))
    /\ UNCHANGED <<child, status>>

\* run_shell_command up to the spawn: the command is prepared; a parse
\* error returns at once, an empty command yields the status of raw 0, and
\* otherwise the process is spawned, which the OS may refuse.
RunShellCommand(t) ==
    /\ pc[t] = "run_shell_command"
    /\ LET p == prepare_shell_command(args[t].command, args[t].shell,
                                      platform_shell_arg(platform))
       IN  /\ prepared' = [prepared EXCEPT ![t] = p]
           /\ \/ PrepareFailed(t, p)
              \/ NoCommand(t, p)
              \/ Spawned(t, p)
              \/ SpawnRefused(t, p)
    /\ UNCHANGED <<platform, args, cpu_timer, rusage_children, timers, stops,
                   harvest, calls>>

\* The child of thread t runs to its end, having used some CPU time.
ChildExit(t) ==
    /\ child[t].kind = "process"
    /\ child[t].state = "running"
    /\ \E u \in 0..MaxCpu, s \in 0..MaxCpu, raw \in RawStatuses :
          child' = [child EXCEPT ![t] =
                       [@ EXCEPT !.state = "exited", !.utime = u, !.stime = s, !.raw = raw]]
    /\ UNCHANGED <<platform, pc, args, prepared, cpu_timer, status, rusage_children,
                   result, spawns, timers, stops, harvest, calls>>

\* The wait (inside .status() on unix, child.wait() on Windows) returns
\* the status of the ended child; on unix the OS adds the child's times to
\* the process's usage of waited-for children.
Wait(t) ==
    /\ pc[t] = "wait"
    /\ child[t].state = "exited"
    /\ status' = [status EXCEPT ![t] = child[t].raw]
    /\ child' = [child EXCEPT ![t] = [@ EXCEPT !.state = "reaped"]]
    /\ rusage_children' =
          IF platform = "unix"
          THEN [utime |-> rusage_children.utime + child[t].utime,
                stime |-> rusage_children.stime + child[t].stime]
          ELSE rusage_children
    /\ harvest' =
          IF platform = "unix"
          THEN [u \in Threads |->
                   IF pc[u] # "idle" /\ timers[u] = 1
                   THEN [utime |-> harvest[u].utime + child[t].utime,
                         stime |-> harvest[u].stime + child[t].stime]
                   ELSE harvest[u]]
          ELSE harvest
    /\ pc' = [pc EXCEPT ![t] = "stop"]
    /\ UNCHANGED <<platform, args, prepared, cpu_timer, result, spawns, timers,
                   stops, calls>>

\* The wait fails: the error returns through the ? operator.
WaitFails(t) ==
    /\ pc[t] = "wait"
    /\ child[t].kind = "process"
    /\ Return(t, Propagate("WaitError"))
    /\ UNCHANGED <<platform, args, prepared, cpu_timer, child, status,
                   rusage_children, spawns, timers, stops, harvest, calls>>

\* let (user_time, system_time) = cpu_timer.stop(); Ok(ExecuteResult {..})
Stop(t) ==
    /\ pc[t] = "stop"
    /\ LET times == stop(cpu_timer[t], child[t], rusage_children)
       IN  Return(t, ExecuteResult(times[1], times[2], status[t]))
    /\ stops' = [stops EXCEPT ![t] = @ + 1]
    /\ UNCHANGED <<platform, args, prepared, cpu_timer, child, status,
                   rusage_children, spawns, timers, harvest, calls>>

\* One step of thread t, its requests drawn from the given set.
Step(t, requests) ==
    \/ Invoke(t, requests)
    \/ GetCpuTimer(t)
    \/ RunShellCommand(t)
    \/ ChildExit(t)
    \/ Wait(t)
    \/ WaitFails(t)
    \/ Stop(t)

\* One thread calls execute_and_time, one call after the other.
Next == Step("t1", Requests)

Spec == Init /\ [][Next]_vars

\* Two threads call execute_and_time, their steps interleaved.
NextConc == \E t \in Threads : Step(t, ConcRequests)

SpecConc == Init /\ [][NextConc]_vars

\* The preparer alone, applied to every command text up to MaxLen.
InitPrep ==
    /\ platform \in Platforms
    /\ pc = [t \in Threads |-> IF t = "t1" THEN "prepare" ELSE "idle"]
    /\ args \in {[t \in Threads |-> IF t = "t1" THEN req ELSE NoRequest] :
                    req \in PrepRequests}
    /\ prepared = [t \in Threads |-> PrepUnset]
    /\ cpu_timer = [t \in Threads |-> NoTimer]
    /\ child = [t \in Threads |-> NoChild]
    /\ status = [t \in Threads |-> -1]
    /\ rusage_children = [utime |-> 0, stime |-> 0]
    /\ result = [t \in Threads |-> NoResult]
    /\ spawns = [t \in Threads |-> 0]
    /\ timers = [t \in Threads |-> 0]
    /\ stops = [t \in Threads |-> 0]
    /\ harvest = [t \in Threads |-> [utime |-> 0, stime |-> 0]]
    /\ calls = 0

\* prepare_shell_command(command, shell, shell_arg) applied in thread t.
PrepareShellCommand(t) ==
    /\ pc[t] = "prepare"
    /\ prepared' = [prepared EXCEPT ![t] =
                       prepare_shell_command(args[t].command, args[t].shell,
                                             platform_shell_arg(platform))]
    /\ pc' = [pc EXCEPT ![t] = "prepared"]
    /\ UNCHANGED <<platform, args, cpu_timer, child, status, rusage_children,
                   result, spawns, timers, stops, harvest, calls>>

NextPrep == PrepareShellCommand("t1")

SpecPrep == InitPrep /\ [][NextPrep]_vars


\* ----------------------------------------------------------------- claims

\* The call of thread t has returned.
Finished(t) == pc[t] = "idle" /\ result[t].kind # "pending"

\* The CPU times of the child the call of thread t spawned (0 without one).
OwnUser(t) == IF child[t].kind = "process" THEN child[t].utime ELSE 0
OwnSystem(t) == IF child[t].kind = "process" THEN child[t].stime ELSE 0

\* The command of thread t, with no shell, tokenizes to no word.
EmptyCommand(t) ==
    /\ args[t].shell = <<>>
    /\ split(args[t].command).ok
    /\ split(args[t].command).words = <<>>

\* The command of thread t, with no shell, cannot be tokenized.
Untokenizable(t) == args[t].shell = <<>> /\ ~split(args[t].command).ok

\* C1: with two calls interleaved, the user_time and system_time a call
\* returns are the CPU times of the child that call itself spawned.
C1_OwnChildOnly ==
    \A t \in Threads :
        result[t].kind = "Ok" =>
            /\ result[t].user_time = OwnUser(t)
            /\ result[t].system_time = OwnSystem(t)

\* C2: a command that tokenizes to no word, with no shell, returns Ok with
\* raw status 0, user_time 0 and system_time 0, and spawns no process.
C2_EmptyCommandZero ==
    \A t \in Threads :
        (Finished(t) /\ EmptyCommand(t)) =>
            /\ result[t].kind = "Ok"
            /\ result[t].status = 0
            /\ result[t].user_time = 0
            /\ result[t].system_time = 0
            /\ spawns[t] = 0
            /\ child[t].kind # "process"

\* C3: with no shell and a command that cannot be tokenized, the preparer
\* returns the parse error with no executable and no arguments, and the
\* call returns that error at once: no spawn, no child, no result value.
C3_ParseErrorSurfaces ==
    \A t \in Threads :
        (Untokenizable(t) /\ prepared[t].kind # "unset") =>
            /\ prepared[t] = PrepErr("ParseError")
            /\ pc[t] = "idle"
            /\ result[t].kind = "Err"
            /\ result[t].error = "ParseError"
            /\ result[t].status = -1
            /\ spawns[t] = 0
            /\ child[t].kind = "none"
            /\ stops[t] = 0

C3_Witness ==
    \E t \in Threads : Untokenizable(t) /\ Finished(t) /\ result[t].kind = "Err"

\* C4: when the spawn is refused, the call returns the spawn error and no
\* ExecuteResult (no times, no status), after a single attempt.
C4_SpawnErrorReturned ==
    \A t \in Threads :
        /\ (spawns[t] >= 1 /\ child[t].kind = "none") =>
              /\ pc[t] = "idle"
              /\ result[t].kind = "Err"
              /\ result[t].error = "SpawnError"
              /\ result[t].status = -1
              /\ status[t] = -1
              /\ spawns[t] = 1
              /\ stops[t] = 0
        /\ (prepared[t].kind = "Some" /\ ~CanSpawn(prepared[t].executable)) =>
              /\ Finished(t)
              /\ result[t].kind = "Err"
              /\ child[t].kind = "none"

C4_Witness ==
    \E t \in Threads :
        /\ Finished(t)
        /\ result[t].error = "SpawnError"
        /\ ~CanSpawn(prepared[t].executable)

\* C5: with a non-empty shell, whatever the command text, the preparer
\* returns the shell as the executable and [shell_arg, command] as the
\* arguments, the command unchanged; never None, never a parse error.
C5_ShellPassThrough ==
    \A t \in Threads :
        (pc[t] = "prepared" /\ args[t].shell # <<>>) =>
            /\ prepared[t].kind = "Some"
            /\ prepared[t].executable = args[t].shell
            /\ prepared[t].arguments = <<platform_shell_arg(platform), args[t].command>>

C5_Witness ==
    \E t \in Threads :
        /\ pc[t] = "prepared"
        /\ args[t].shell # <<>>
        /\ ~split(args[t].command).ok
        /\ prepared[t].kind = "Some"

C7_StdioOfChild ==
    \A t \in Threads :
        child[t].kind = "process" =>
            /\ child[t].stdin = "null"
            /\ child[t].stdout = args[t].stdout
            /\ child[t].stderr = args[t].stderr

C7_Witness ==
    \E t \in Threads :
        /\ child[t].kind = "process"
        /\ args[t].stdout = "piped"
        /\ args[t].stderr = "inherit"

\* The child of thread t has exactly the one added variable, its value made
\* of "X" only and at most 4095 long.
HasOffset(t) ==
    /\ Len(child[t].envs) = 1
    /\ child[t].envs[1].name = EnvName
    /\ child[t].envs[1].value.char = "X"
    /\ child[t].envs[1].value.len >= 0
    /\ child[t].envs[1].value.len <= EnvModulus - 1

\* C8 as stated: every child spawned, in either build, has the one added
\* variable HYPERFINE_RANDOMIZED_ENVIRONMENT_OFFSET of 0 to 4095 "X".
C8_EveryChildHasOffset ==
    \A t \in Threads : child[t].kind = "process" => HasOffset(t)

\* C8 as amended: every child spawned by the unix build has the one added
\* variable HYPERFINE_RANDOMIZED_ENVIRONMENT_OFFSET of 0 to 4095 "X"; the
\* Windows build adds no variable.
C8_UnixChildHasOffset ==
    \A t \in Threads :
        child[t].kind = "process" =>
            IF platform = "unix" THEN HasOffset(t) ELSE child[t].envs = <<>>

C8_Witness ==
    \E t \in Threads :
        /\ platform = "unix"
        /\ child[t].kind = "process"
        /\ child[t].envs[1].value.len = EnvModulus - 1

\* C9 as stated: on every path, a timer that was created is stopped exactly
\* once by the time the call returns.
C9_StoppedOnEveryPath ==
    \A t \in Threads : (Finished(t) /\ timers[t] >= 1) => stops[t] = 1

\* C9 as amended: a call creates at most one timer and stops it at most
\* once, only after the wait for its child has returned; a call that
\* returns Ok has stopped its timer exactly once, and a call that returns
\* an error has not stopped it.
C9_StoppedOnceAfterWait ==
    \A t \in Threads :
        /\ timers[t] <= 1
        /\ stops[t] <= timers[t]
        /\ stops[t] = 1 => (child[t].kind = "none" \/ child[t].state = "reaped")
        /\ (Finished(t) /\ result[t].kind = "Ok") => (timers[t] = 1 /\ stops[t] = 1)
        /\ (Finished(t) /\ result[t].kind = "Err") => stops[t] = 0

C9_Witness ==
    \E t \in Threads :
        /\ stops[t] = 1
        /\ child[t].kind = "process"
        /\ child[t].state = "reaped"

====
